---- MODULE Spec2Model ----
(***************************************************************************)
(* A model of the telraam client library: the endpoint descriptors, the    *)
(* generic send of TelraamClient, the decoding of the typed responses and  *)
(* the status check of their payload accessors.                            *)
(*                                                                         *)
(* Strings are TLA+ strings, except timestamps, which are sequences of     *)
(* one-character strings so that their form can be inspected.  Option<T>   *)
(* is the empty sequence (None) or a one-element sequence (Some).          *)
(* Result<T, E> is a record with ok = TRUE and a value, or ok = FALSE and  *)
(* an error.                                                               *)
(***************************************************************************)
EXTENDS Integers, Sequences, FiniteSets, TLC

\* ------------------------------------------------------------------ bounds

\* HTTP requests one client issues in a behaviour.
MaxSends == 2
\* Camera records in one response body.
MaxCameras == 2
\* Report records in one response body.
MaxReports == 1

\* ----------------------------------------------------------------- helpers

None == <<>>
Some(v) == <<v>>
IsSome(o) == Len(o) = 1
Unwrap(o) == o[1]

Ok(v) == [ok |-> TRUE, value |-> v]
Err(e) == [ok |-> FALSE, error |-> e]

\* Sequences over S of length at most n.
SeqUpTo(S, n) == UNION {[1..k -> S] : k \in 0..n}

\* ------------------------------------------------------- time (SystemTime)

\* A SystemTime at or after the Unix epoch: whole seconds and nanoseconds.
Time(s, n) == [secs |-> s, nanos |-> n]

Digit(d) ==
    CASE d = 0 -> "0" [] d = 1 -> "1" [] d = 2 -> "2" [] d = 3 -> "3"
      [] d = 4 -> "4" [] d = 5 -> "5" [] d = 6 -> "6" [] d = 7 -> "7"
      [] d = 8 -> "8" [] d = 9 -> "9"

IsDigit(c) == c \in {"0", "1", "2", "3", "4", "5", "6", "7", "8", "9"}

DigitValue(c) == CHOOSE d \in 0..9 : Digit(d) = c

Digits2(n) == <<Digit((n \div 10) % 10), Digit(n % 10)>>
Digits3(n) == <<Digit((n \div 100) % 10)>> \o Digits2(n)
Digits4(n) == <<Digit((n \div 1000) % 10)>> \o Digits3(n)

\* Lengths of the months of a year that starts on 1 March.
MonthsFromMarch == <<31, 30, 31, 30, 31, 31, 30, 31, 30, 31, 31, 29>>

\* The loop over the months: <<mon, remdays>> once remdays fits in month mon.
RECURSIVE MonthLoop(_, _)
MonthLoop(mon, remdays) ==
    IF mon = 12 \/ remdays < MonthsFromMarch[mon]
    THEN <<mon, remdays>>
    ELSE MonthLoop(mon + 1, remdays - MonthsFromMarch[mon])

\* The civil date and time of day of a count of seconds since the epoch,
\* counted in 400-, 100- and 4-year cycles from 2000-03-01.
CivilFromSecs(secs) ==
    LET days == (secs \div 86400) - 11017
        secs_of_day == secs % 86400
        \* \div and % round down, which is the source's truncation followed
        \* by its "remdays < 0" adjustment.
        qc_cycles == days \div 146097
        remdays0 == days % 146097
        c0 == remdays0 \div 36524
        c_cycles == IF c0 = 4 THEN 3 ELSE c0
        remdays1 == remdays0 - c_cycles * 36524
        q0 == remdays1 \div 1461
        q_cycles == IF q0 = 25 THEN 24 ELSE q0
        remdays2 == remdays1 - q_cycles * 1461
        y0 == remdays2 \div 365
        remyears == IF y0 = 4 THEN 3 ELSE y0
        remdays3 == remdays2 - remyears * 365
        year0 == 2000 + remyears + 4 * q_cycles + 100 * c_cycles + 400 * qc_cycles
        ml == MonthLoop(1, remdays3)
        mon0 == ml[1]
        mday == ml[2] + 1
    IN  [year |-> IF mon0 + 2 > 12 THEN year0 + 1 ELSE year0,
         month |-> IF mon0 + 2 > 12 THEN mon0 - 10 ELSE mon0 + 2,
         day |-> mday,
         hour |-> secs_of_day \div 3600,
         minute |-> (secs_of_day \div 60) % 60,
         second |-> secs_of_day % 60]

\* YYYY-MM-DDTHH:MM:SS of a civil date and time of day.
DateTime(c) ==
    Digits4(c.year) \o <<"-">> \o Digits2(c.month) \o <<"-">> \o Digits2(c.day)
    \o <<"T">> \o Digits2(c.hour) \o <<":">> \o Digits2(c.minute)
    \o <<":">> \o Digits2(c.second)

\* The same rendering with the milliseconds rounded to the nearest.
format_rfc3339_millis_rounded(time) ==
    DateTime(CivilFromSecs(time.secs)) \o <<".">>
    \o Digits3(((time.nanos + 500000) \div 1000000) % 1000) \o <<"Z">>

\* The serializer of time_start and time_end: humantime's rendering of a
\* time with the nanoseconds cut to three digits.
format_rfc3339_millis(time) ==
    DateTime(CivilFromSecs(time.secs)) \o <<".">>
    \o <<Digit(time.nanos \div 100000000),
         Digit((time.nanos \div 10000000) % 10),
         Digit((time.nanos \div 1000000) % 10)>>
    \o <<"Z">>

\* The value of a run of decimal digits.
RECURSIVE DigitsValue(_)
DigitsValue(cs) ==
    IF cs = <<>> THEN 0
    ELSE 10 * DigitsValue(SubSeq(cs, 1, Len(cs) - 1)) + DigitValue(cs[Len(cs)])

\* The nanoseconds denoted by the fraction digits that follow the point.
RECURSIVE FractionNanos(_, _)
FractionNanos(cs, mult) ==
    IF cs = <<>> THEN 0
    ELSE mult * DigitValue(Head(cs)) + FractionNanos(Tail(cs), mult \div 10)

IsLeapYear(y) == y % 4 = 0 /\ (y % 100 # 0 \/ y % 400 = 0)

\* Days of the year before the month, and the month's length.
YearDays(month, leap) ==
    CASE month = 1 -> <<0, 31>>
      [] month = 2 -> <<31, IF leap THEN 29 ELSE 28>>
      [] month = 3 -> <<59, 31>>
      [] month = 4 -> <<90, 30>>
      [] month = 5 -> <<120, 31>>
      [] month = 6 -> <<151, 30>>
      [] month = 7 -> <<181, 31>>
      [] month = 8 -> <<212, 31>>
      [] month = 9 -> <<243, 30>>
      [] month = 10 -> <<273, 31>>
      [] month = 11 -> <<304, 30>>
      [] month = 12 -> <<334, 31>>

\* The seconds since the epoch of a date and time of day in range, with the
\* fraction that follows in b from its character 21 on.
ParseSeconds(b, year, month, day, time, yd) ==
    IF day > yd[2] \/ day = 0 THEN Err("OutOfRange")
    ELSE IF Len(b) > 19 /\ b[20] # "." THEN Err("InvalidFormat")
    ELSE IF \E i \in 21..Len(b) : ~IsDigit(b[i]) THEN Err("InvalidDigit")
    ELSE Ok(Time(time
                 + ((year - 1970) * 365
                    + ((year - 1) - 1968) \div 4 - ((year - 1) - 1900) \div 100
                    + ((year - 1) - 1600) \div 400
                    + yd[1] + (day - 1)
                    + (IF IsLeapYear(year) /\ month > 2 THEN 1 ELSE 0)) * 86400,
                 FractionNanos(SubSeq(b, 21, Len(b)), 100000000)))

\* The range check of the fields read; a second of 60 counts as 59.
ParseFields(b, year, month, day, hour, minute, second) ==
    IF year < 1970 \/ hour > 23 \/ minute > 59 \/ second > 60
         \/ month < 1 \/ month > 12
    THEN Err("OutOfRange")
    ELSE ParseSeconds(b, year, month, day,
                      (IF second = 60 THEN 59 ELSE second) + minute * 60
                        + hour * 3600,
                      YearDays(month, IsLeapYear(year)))

\* The timestamp without its "Z": the separators, then the digits.
ParseDateTime(b) ==
    IF Len(b) < 19 \/ b[5] # "-" \/ b[8] # "-" \/ b[11] \notin {"T", " "}
         \/ b[14] # ":" \/ b[17] # ":"
    THEN Err("InvalidFormat")
    ELSE IF \E i \in {1, 2, 3, 4, 6, 7, 9, 10, 12, 13, 15, 16, 18, 19} : ~IsDigit(b[i])
    THEN Err("InvalidDigit")
    ELSE ParseFields(b, DigitsValue(SubSeq(b, 1, 4)), DigitsValue(SubSeq(b, 6, 7)),
                     DigitsValue(SubSeq(b, 9, 10)), DigitsValue(SubSeq(b, 12, 13)),
                     DigitsValue(SubSeq(b, 15, 16)), DigitsValue(SubSeq(b, 18, 19)))

\* The timestamp decoder of humantime_serde: "YYYY-MM-DD" then "T" or a
\* space, "HH:MM:SS", an optional fraction and an optional "Z".
parse_rfc3339_weak(cs) ==
    IF Len(cs) < 19 THEN Err("InvalidFormat")
    ELSE ParseDateTime(IF cs[Len(cs)] = "Z" THEN SubSeq(cs, 1, Len(cs) - 1)
                       ELSE cs)

\* The characters of the timestamps used as inputs.
Ts20201030 == <<"2", "0", "2", "0", "-", "1", "0", "-", "3", "0", "T",
                "0", "7", ":", "0", "0", ":", "0", "0", ".", "0", "0", "0", "Z">>
Ts20191002 == <<"2", "0", "1", "9", "-", "1", "0", "-", "0", "2", "T",
                "1", "9", ":", "4", "2", ":", "5", "4", ".", "3", "4", "3", "Z">>

\* Times a TrafficRequest is built with: what the command line's
\* parse_rfc3339_weak yields, years 1970 to 9999, with any fraction.
Times ==
    {Time(1604041200, 0), Time(951827696, 123456789), Time(0, 999999999)}

\* ------------------------------------------------------ endpoint descriptors

\* Identifiers given as path parameters; nothing constrains them.
Ids == {"348917", "", "9 0/1"}

TrafficLevels == {"Segments", "Instance"}

TrafficRequests ==
    {[level |-> l, format |-> f[1], id |-> f[2], time_start |-> ts, time_end |-> te] :
       l \in TrafficLevels, f \in {<<"hourly", "348917">>, <<"per-hour", "">>},
       ts \in Times, te \in Times}

\* The descriptor values a caller can build.
Endpoints ==
    {[kind |-> "Welcome"], [kind |-> "LiveTrafficSnapshot"],
     [kind |-> "AllAvailableCameras"], [kind |-> "AllSegments"]}
    \cup {[kind |-> "Traffic", request |-> r] : r \in TrafficRequests}
    \cup {[kind |-> "CamerasBySegmentId", segment_id |-> i] : i \in Ids}
    \cup {[kind |-> "CameraByMacId", mac_id |-> i] : i \in Ids}
    \cup {[kind |-> "SegmentById", segment_id |-> i] : i \in Ids}

PATH(e) ==
    CASE e.kind = "Welcome" -> ""
      [] e.kind = "Traffic" -> "reports/traffic"
      [] e.kind = "LiveTrafficSnapshot" -> "reports/traffic_snapshot_live"
      [] e.kind = "AllAvailableCameras" -> "cameras"
      [] e.kind = "CamerasBySegmentId" -> "cameras/segment"
      [] e.kind = "CameraByMacId" -> "cameras"
      [] e.kind = "AllSegments" -> "segments/all"
      [] e.kind = "SegmentById" -> "segments/id"

\* Every descriptor declared with GET.
METHOD_all_get(e) == "GET"

METHOD(e) == IF e.kind = "Traffic" THEN "POST" ELSE "GET"

\* The associated Response type of a descriptor.
ResponseType(e) ==
    CASE e.kind = "Welcome" -> "WelcomeResponse"
      [] e.kind = "Traffic" -> "TrafficResponse"
      [] e.kind = "LiveTrafficSnapshot" -> "TrafficSnapshotResponse"
      [] e.kind \in {"AllAvailableCameras", "CamerasBySegmentId", "CameraByMacId"}
           -> "CamerasResponse"
      [] e.kind \in {"AllSegments", "SegmentById"} -> "SegmentResponse"

payload(e) == IF e.kind = "Traffic" THEN Some(e.request) ELSE None

\* The query parameters: no descriptor overrides the empty default.
params(e) == {}

path_params(e) ==
    CASE e.kind = "CamerasBySegmentId" -> Some(e.segment_id)
      [] e.kind = "CameraByMacId" -> Some(e.mac_id)
      [] e.kind = "SegmentById" -> Some(e.segment_id)
      [] OTHER -> None

\* ---------------------------------------------------- request serialization

\* The derived serializer without the renames: the variant's own name.
SerializeTrafficLevelUnrenamed(level) == level

SerializeTrafficLevel(level) ==
    IF level = "Segments" THEN "segments" ELSE "instance"

\* The JSON object of a TrafficRequest.
SerializeTrafficRequest(r) ==
    [level |-> SerializeTrafficLevel(r.level),
     format |-> r.format,
     id |-> r.id,
     time_start |-> format_rfc3339_millis(r.time_start),
     time_end |-> format_rfc3339_millis(r.time_end)]

\* ------------------------------------------------------------------ client

TELRAAM_NET == "https://telraam-api.net"
VER == "v1"

\* API tokens, as characters; the last holds a byte no header value may hold.
Tokens == {<<"k", "1">>, <<"k", "2">>, <<"k", "\n">>}

\* HeaderValue::from_str accepts visible ASCII, space and tab only.
IsHeaderValue(token) == \A i \in 1..Len(token) : token[i] \notin {"\n", "\r"}

\* The constructor that takes the token as it is given.
new_unvalidated(api_token) ==
    Ok([accept |-> "application/json",
        content_type |-> "application/json",
        x_api_key |-> [value |-> api_token, sensitive |-> TRUE]])

\* The constructor that leaves Accept at the HTTP client's default.
new_default_accept(api_token) ==
    IF ~IsHeaderValue(api_token) THEN Err([kind |-> "InvalidHeaderValue"])
    ELSE Ok([accept |-> "*/*",
             content_type |-> "application/json",
             x_api_key |-> [value |-> api_token, sensitive |-> TRUE]])

\* TelraamClient::new: the client with its default headers, or the error.
new(api_token) ==
    IF ~IsHeaderValue(api_token) THEN Err([kind |-> "InvalidHeaderValue"])
    ELSE Ok([accept |-> "application/json",
             content_type |-> "application/json",
             x_api_key |-> [value |-> api_token, sensitive |-> TRUE]])

\* The URL of send that leaves out an empty path parameter.
BuildUrlSkipEmpty(e) ==
    LET url == TELRAAM_NET \o "/" \o VER \o "/" \o PATH(e)
    IN  IF IsSome(path_params(e)) /\ Unwrap(path_params(e)) # ""
        THEN url \o "/" \o Unwrap(path_params(e))
        ELSE url

\* The URL send requests.
BuildUrl(e) ==
    LET url == TELRAAM_NET \o "/" \o VER \o "/" \o PATH(e)
    IN  IF IsSome(path_params(e))
        THEN url \o "/" \o Unwrap(path_params(e))
        ELSE url

\* The request of send that serializes the Option itself: a unit payload
\* goes out as the body "null".
BuildRequestAlwaysBody(headers, e) ==
    [method |-> METHOD(e),
     url |-> BuildUrl(e),
     query |-> params(e),
     headers |-> headers,
     body |-> IF IsSome(payload(e))
              THEN Some(SerializeTrafficRequest(Unwrap(payload(e))))
              ELSE Some("null")]

\* The request send builds from the client's headers and the descriptor.
BuildRequest(headers, e) ==
    [method |-> METHOD(e),
     url |-> BuildUrl(e),
     query |-> params(e),
     headers |-> headers,
     body |-> IF IsSome(payload(e))
              THEN Some(SerializeTrafficRequest(Unwrap(payload(e))))
              ELSE None]

\* ----------------------------------------------------------- response bodies

\* A response body is a JSON object, given by the members the decoders read
\* (an absent member is None), or is not JSON at all.  Members are read in
\* the order status_code, message, msg.
StatusCodeValues == {0, 200, 299, 300, 404, -1}
MessageValues == {"ok"}
MsgValues == {"hello! Telraam server 2.0 is up and running"}

Opt(S) == {None} \cup {Some(v) : v \in S}

\* Reports on the wire: date is a timestamp string.
ReportValues ==
    {[instance_id |-> -1, segment_id |-> 348917, date |-> Ts20201030],
     [instance_id |-> 7, segment_id |-> -1, date |-> Ts20191002]}

\* Cameras on the wire: the calibration flag is a string, time_end is null
\* (None) or a timestamp string.
YesNoValues == {"yes", "no", "Yes", ""}
CameraValues ==
    [is_calibration_done : YesNoValues, time_end : {None}]
    \cup {[is_calibration_done |-> "no", time_end |-> Some(Ts20191002)]}

GeoValues == {"FeatureCollection", "Feature"}

NoPayload == [report |-> None, cameras |-> None, camera |-> None, geo |-> None]

\* The payload members a body for each response type may carry.
PayloadMembers(type) ==
    CASE type = "WelcomeResponse" -> {NoPayload}
      [] type = "TrafficResponse" ->
           {[NoPayload EXCEPT !.report = r] : r \in Opt(SeqUpTo(ReportValues, MaxReports))}
      [] type = "CamerasResponse" ->
           {[NoPayload EXCEPT !.cameras = c] : c \in Opt(SeqUpTo(CameraValues, MaxCameras))}
           \cup {[NoPayload EXCEPT !.camera = c] : c \in Opt(SeqUpTo(CameraValues, 1))}
           \cup {[NoPayload EXCEPT !.cameras = Some(<<>>), !.camera = Some(<<>>)]}
      [] type \in {"TrafficSnapshotResponse", "SegmentResponse"} ->
           {[NoPayload EXCEPT !.geo = g] : g \in Opt(GeoValues)}

Bodies(type) ==
    {[json |-> FALSE]}
    \cup {[json |-> TRUE, status_code |-> sc, message |-> m, msg |-> g,
           report |-> p.report, cameras |-> p.cameras, camera |-> p.camera,
           geo |-> p.geo] :
            sc \in Opt(StatusCodeValues), m \in Opt(MessageValues),
            g \in Opt(MsgValues), p \in PayloadMembers(type)}

\* What the transport hands back: a failure, or a reply with a status line.
HttpStatuses == {200, 500}
Replies(type) ==
    {[kind |-> "transport_error"]}
    \cup {[kind |-> "http", http_status |-> h, body |-> b] :
            h \in HttpStatuses, b \in Bodies(type)}

\* ------------------------------------------------------------------ decoding

DecodeError(reason, what) == [kind |-> "decode", reason |-> reason, what |-> what]

\* Status without the alias: only "message" is read.
DeserializeStatusNoAlias(body) ==
    IF IsSome(body.status_code) /\ Unwrap(body.status_code) < 0
    THEN Err(DecodeError("invalid_value", "status_code"))
    ELSE IF ~IsSome(body.message)
    THEN Err(DecodeError("missing_field", "message"))
    ELSE Ok([status_code |-> IF IsSome(body.status_code)
                             THEN Unwrap(body.status_code) ELSE 0,
             message |-> Unwrap(body.message)])

\* Status without the default: a body must hold status_code.
DeserializeStatusNoDefault(body) ==
    IF ~IsSome(body.status_code)
    THEN Err(DecodeError("missing_field", "status_code"))
    ELSE IF Unwrap(body.status_code) < 0
    THEN Err(DecodeError("invalid_value", "status_code"))
    ELSE IF IsSome(body.message) /\ IsSome(body.msg)
    THEN Err(DecodeError("duplicate_field", "message"))
    ELSE IF ~IsSome(body.message) /\ ~IsSome(body.msg)
    THEN Err(DecodeError("missing_field", "message"))
    ELSE Ok([status_code |-> Unwrap(body.status_code),
             message |-> IF IsSome(body.message)
                         THEN Unwrap(body.message) ELSE Unwrap(body.msg)])

\* Status: status_code is a usize that defaults to 0; message is read from
\* "message" or "msg".
DeserializeStatus(body) ==
    IF IsSome(body.status_code) /\ Unwrap(body.status_code) < 0
    THEN Err(DecodeError("invalid_value", "status_code"))
    ELSE IF IsSome(body.message) /\ IsSome(body.msg)
    THEN Err(DecodeError("duplicate_field", "message"))
    ELSE IF ~IsSome(body.message) /\ ~IsSome(body.msg)
    THEN Err(DecodeError("missing_field", "message"))
    ELSE Ok([status_code |-> IF IsSome(body.status_code)
                             THEN Unwrap(body.status_code) ELSE 0,
             message |-> IF IsSome(body.message)
                         THEN Unwrap(body.message) ELSE Unwrap(body.msg)])

\* The flag decoder that ignores the case of the first letter.
from_yes_no_any_case(v) ==
    CASE v \in {"yes", "Yes"} -> Ok(TRUE)
      [] v \in {"no", "No"} -> Ok(FALSE)
      [] OTHER -> Err(DecodeError("unknown_variant", v))

\* The decoder of Camera.is_calibration_done.
from_yes_no(v) ==
    CASE v = "yes" -> Ok(TRUE)
      [] v = "no" -> Ok(FALSE)
      [] OTHER -> Err(DecodeError("unknown_variant", v))

\* The encoder the derive would use without serialize_with: the boolean's
\* own JSON rendering.
to_yes_no_as_bool(value) == IF value THEN "true" ELSE "false"

\* The encoder of Camera.is_calibration_done.
to_yes_no(value) == IF value THEN "yes" ELSE "no"

\* An optional time from the outcome of the timestamp's parse.
SomeTime(t) ==
    IF t.ok THEN Ok(Some(t.value))
    ELSE Err(DecodeError("timestamp", t.error))

\* The decoder of an optional time that drops the fraction of a second.
DeserializeOptionTimeWholeSeconds(o) ==
    IF ~IsSome(o) THEN Ok(None)
    ELSE IF ~parse_rfc3339_weak(Unwrap(o)).ok
    THEN Err(DecodeError("timestamp", parse_rfc3339_weak(Unwrap(o)).error))
    ELSE Ok(Some(Time(parse_rfc3339_weak(Unwrap(o)).value.secs, 0)))

\* humantime_serde on an Option<SystemTime>: null is None.
DeserializeOptionTime(o) ==
    IF ~IsSome(o) THEN Ok(None)
    ELSE SomeTime(parse_rfc3339_weak(Unwrap(o)))

\* A Camera from its decoded fields, or the error of the first that failed.
CameraOf(te, flag) ==
    IF ~te.ok THEN te
    ELSE IF ~flag.ok THEN flag
    ELSE Ok([is_calibration_done |-> flag.value, time_end |-> te.value])

\* One Camera; time_end precedes is_calibration_done in the object.
DeserializeCamera(c) ==
    CameraOf(DeserializeOptionTime(c.time_end),
             from_yes_no(c.is_calibration_done))

\* A Report from its fields and its decoded date.
ReportOf(r, t) ==
    IF ~t.ok THEN Err(DecodeError("timestamp", t.error))
    ELSE Ok([instance_id |-> r.instance_id, segment_id |-> r.segment_id,
             date |-> t.value])

\* One Report; date is decoded by humantime_serde.
DeserializeReport(r) == ReportOf(r, parse_rfc3339_weak(r.date))

\* The decoded head of a list put before its decoded rest.
Push(head, rest) ==
    IF ~rest.ok THEN rest ELSE Ok(<<head.value>> \o rest.value)

\* A Vec of items: the first item that fails to decode fails the list.
RECURSIVE DeserializeVec(_, _)
VecFrom(kind, items, head) ==
    IF ~head.ok THEN head
    ELSE Push(head, DeserializeVec(kind, Tail(items)))

DeserializeVec(kind, items) ==
    IF items = <<>> THEN Ok(<<>>)
    ELSE VecFrom(kind, items,
                 IF kind = "Camera" THEN DeserializeCamera(Head(items))
                 ELSE DeserializeReport(Head(items)))

\* A WelcomeResponse from its decoded Status.
WelcomeResponseOf(st) ==
    IF ~st.ok THEN st
    ELSE Ok([type |-> "WelcomeResponse", status |-> st.value])

DeserializeWelcomeResponse(body) == WelcomeResponseOf(DeserializeStatus(body))

\* The decoded "report" and Status put together.
TrafficResponseOf(reports_, st) ==
    IF ~reports_.ok THEN reports_
    ELSE IF ~st.ok THEN st
    ELSE Ok([type |-> "TrafficResponse", status |-> st.value,
             reports |-> reports_.value])

\* The member "report" is decoded as it is read, the flattened Status after
\* the whole object.
DeserializeTrafficResponse(body) ==
    TrafficResponseOf(IF IsSome(body.report)
                      THEN DeserializeVec("Report", Unwrap(body.report))
                      ELSE Err(DecodeError("missing_field", "report")),
                      DeserializeStatus(body))

\* The decoded list and Status put together; a body that holds both
\* "cameras" and "camera" fails once the second is read.
CamerasResponseOf(body, first, st) ==
    IF ~first.ok THEN first
    ELSE IF IsSome(body.cameras) /\ IsSome(body.camera)
    THEN Err(DecodeError("duplicate_field", "cameras"))
    ELSE IF ~st.ok THEN st
    ELSE Ok([type |-> "CamerasResponse", status |-> st.value,
             cameras |-> first.value])

\* The list under the member that holds it.
CamerasFrom(member) ==
    IF IsSome(member) THEN DeserializeVec("Camera", Unwrap(member))
    ELSE Err(DecodeError("missing_field", "cameras"))

\* The list is read from "cameras" or its alias "camera".
DeserializeCamerasResponse(body) ==
    CamerasResponseOf(body,
                      CamerasFrom(IF IsSome(body.cameras) THEN body.cameras
                                  ELSE body.camera),
                      DeserializeStatus(body))

\* Both members are flattened: Status takes its fields, the GeoJSON
\* document is decoded from the rest.
DeserializeGeoResponse(type, body) ==
    LET st == DeserializeStatus(body)
    IN  IF ~st.ok THEN st
        ELSE IF ~IsSome(body.geo) THEN Err(DecodeError("geojson", "type"))
        ELSE IF type = "TrafficSnapshotResponse"
        THEN Ok([type |-> type, status |-> st.value, geo |-> Unwrap(body.geo)])
        ELSE Ok([type |-> type, status |-> st.value, segment |-> Unwrap(body.geo)])

\* Response::json for the descriptor's Response type.
Deserialize(type, body) ==
    IF ~body.json THEN Err(DecodeError("syntax", ""))
    ELSE CASE type = "WelcomeResponse" -> DeserializeWelcomeResponse(body)
           [] type = "TrafficResponse" -> DeserializeTrafficResponse(body)
           [] type = "CamerasResponse" -> DeserializeCamerasResponse(body)
           [] OTHER -> DeserializeGeoResponse(type, body)

\* A send that turns an HTTP status of 400 and above into an error before
\* the body is decoded.
SendResultErrorForStatus(e, reply) ==
    IF reply.kind = "transport_error" THEN Err([kind |-> "transport"])
    ELSE IF reply.http_status >= 400 THEN Err([kind |-> "transport"])
    ELSE Deserialize(ResponseType(e), reply.body)

\* A send that applies the status check before it returns.
SendResultChecked(e, reply) ==
    IF reply.kind = "transport_error" THEN Err([kind |-> "transport"])
    ELSE LET r == Deserialize(ResponseType(e), reply.body)
         IN  IF r.ok /\ r.value.status.status_code > 299
             THEN Err([kind |-> "Non200Response", status |-> r.value.status])
             ELSE r

\* The last line of send: the reply's status line is not looked at, the
\* body is decoded, and a failure of either step is the error returned.
SendResult(e, reply) ==
    IF reply.kind = "transport_error" THEN Err([kind |-> "transport"])
    ELSE Deserialize(ResponseType(e), reply.body)

\* A send that issues the request again after a transport failure, and
\* returns the failure.
send_retrying(self, endpoint, reply) ==
    [requests |-> IF reply.kind = "transport_error"
                  THEN <<BuildRequest(self, endpoint), BuildRequest(self, endpoint)>>
                  ELSE <<BuildRequest(self, endpoint)>>,
     ret |-> SendResult(endpoint, reply)]

\* TelraamClient::send: the requests it issues and what it returns.  The
\* payload of every descriptor serializes, so the request is always built;
\* it is issued once, and the reply to it decides the result.
send(self, endpoint, reply) ==
    [requests |-> <<BuildRequest(self, endpoint)>>,
     ret |-> SendResult(endpoint, reply)]

\* ------------------------------------------------- status check and accessors

Non200Response(status) == [kind |-> "Non200Response", status |-> status]

\* The borrowing check with the boundary one too high.
try_to_error_off_by_one(self) ==
    IF self.status_code <= 300 THEN Ok(<<>>) ELSE Err(Non200Response(self))

\* The borrowing check that lets every status through.
try_to_error_unchecked(self) == Ok(<<>>)

\* Status::try_to_error: the borrowing check, the error holds a clone.
try_to_error(self) ==
    IF self.status_code <= 299 THEN Ok(<<>>) ELSE Err(Non200Response(self))

\* The consuming check with the boundary one too high.
try_into_error_off_by_one(self) ==
    IF self.status_code <= 300 THEN Ok(<<>>) ELSE Err(Non200Response(self))

\* The consuming check that lets every status through.
try_into_error_unchecked(self) == Ok(<<>>)

\* Status::try_into_error: the consuming check, the error holds the Status.
try_into_error(self) ==
    IF self.status_code <= 299 THEN Ok(<<>>) ELSE Err(Non200Response(self))

\* Response::status, the same for the five response types.
status(self) == self.status

reports(self) ==
    LET c == try_to_error(self.status) IN IF c.ok THEN Ok(self.reports) ELSE c
take_reports(self) ==
    LET c == try_into_error(self.status) IN IF c.ok THEN Ok(self.reports) ELSE c

snapshot(self) ==
    LET c == try_to_error(self.status) IN IF c.ok THEN Ok(self.geo) ELSE c
take_snapshot(self) ==
    LET c == try_into_error(self.status) IN IF c.ok THEN Ok(self.geo) ELSE c

cameras(self) ==
    LET c == try_to_error(self.status) IN IF c.ok THEN Ok(self.cameras) ELSE c
take_cameras(self) ==
    LET c == try_into_error(self.status) IN IF c.ok THEN Ok(self.cameras) ELSE c

segments(self) ==
    LET c == try_to_error(self.status) IN IF c.ok THEN Ok(self.segment) ELSE c
take_segments(self) ==
    LET c == try_into_error(self.status) IN IF c.ok THEN Ok(self.segment) ELSE c

\* ------------------------------------------------------------ command surface

\* humantime_serde's serializer of a SystemTime: humantime's rendering with
\* no fraction for a whole second and nine fraction digits otherwise.
format_rfc3339(time) ==
    IF time.nanos = 0 THEN DateTime(CivilFromSecs(time.secs)) \o <<"Z">>
    ELSE DateTime(CivilFromSecs(time.secs)) \o <<".">>
         \o Digits3(time.nanos \div 1000000)
         \o Digits3((time.nanos \div 1000) % 1000)
         \o Digits3(time.nanos % 1000) \o <<"Z">>

\* The derived serializer of Report.
SerializeReport(r) ==
    [instance_id |-> r.instance_id, segment_id |-> r.segment_id,
     date |-> format_rfc3339(r.date)]

\* The derived serializer of Camera.
SerializeCamera(c) ==
    [is_calibration_done |-> to_yes_no(c.is_calibration_done),
     time_end |-> IF IsSome(c.time_end)
                  THEN Some(format_rfc3339(Unwrap(c.time_end))) ELSE None]

\* serde_json::to_string_pretty of what a take_* accessor extracted.
to_string_pretty(kind, value) ==
    CASE kind = "Report" -> [i \in 1..Len(value) |-> SerializeReport(value[i])]
      [] kind = "Camera" -> [i \in 1..Len(value) |-> SerializeCamera(value[i])]
      [] OTHER -> value

\* What a subcommand function did: the requests it issued, the lines it
\* printed to standard output, and what it returned.
Ran(requests, stdout, ret) ==
    [requests |-> requests, stdout |-> stdout, ret |-> ret]

\* The end of the seven functions that print a payload, from what the
\* accessor returned:
\*   println!("{}", serde_json::to_string_pretty(&x)?);
PrintTaken(requests, taken, kind) ==
    IF ~taken.ok THEN Ran(requests, <<>>, taken)
    ELSE Ran(requests, <<to_string_pretty(kind, taken.value)>>, Ok(<<>>))

\* The end of welcome, from what send returned.
PrintMessage(sent_) ==
    IF ~sent_.ret.ok THEN Ran(sent_.requests, <<>>, sent_.ret)
    ELSE Ran(sent_.requests, <<"msg = " \o status(sent_.ret.value).message>>,
             Ok(<<>>))

\* client.send(request)?.take_reports()? and the print.
PrintReports(sent_) ==
    IF ~sent_.ret.ok THEN Ran(sent_.requests, <<>>, sent_.ret)
    ELSE PrintTaken(sent_.requests, take_reports(sent_.ret.value), "Report")

\* client.send(request)?.take_snapshot()? and the print.
PrintSnapshot(sent_) ==
    IF ~sent_.ret.ok THEN Ran(sent_.requests, <<>>, sent_.ret)
    ELSE PrintTaken(sent_.requests, take_snapshot(sent_.ret.value), "GeoJson")

\* client.send(request)?.take_cameras()? and the print.
PrintCameras(sent_) ==
    IF ~sent_.ret.ok THEN Ran(sent_.requests, <<>>, sent_.ret)
    ELSE PrintTaken(sent_.requests, take_cameras(sent_.ret.value), "Camera")

\* client.send(request)?.take_segments()? and the print.
PrintSegments(sent_) ==
    IF ~sent_.ret.ok THEN Ran(sent_.requests, <<>>, sent_.ret)
    ELSE PrintTaken(sent_.requests, take_segments(sent_.ret.value), "GeoJson")

\* fn welcome: the message of the Status is printed as send returned it.
welcome(client_, request, reply) ==
    PrintMessage(send(client_, request, reply))

\* fn traffic
traffic(client_, request, reply) ==
    PrintReports(send(client_, request, reply))

\* fn live_traffic_snapshot
live_traffic_snapshot(client_, request, reply) ==
    PrintSnapshot(send(client_, request, reply))

\* fn all_available_cameras
all_available_cameras(client_, request, reply) ==
    PrintCameras(send(client_, request, reply))

\* fn cameras_by_segmant_id
cameras_by_segmant_id(client_, request, reply) ==
    PrintCameras(send(client_, request, reply))

\* fn camera_by_mac_id
camera_by_mac_id(client_, request, reply) ==
    PrintCameras(send(client_, request, reply))

\* fn all_segments
all_segments(client_, request, reply) ==
    PrintSegments(send(client_, request, reply))

\* fn segment_by_id
segment_by_id(client_, request, reply) ==
    PrintSegments(send(client_, request, reply))

\* The match of main on the subcommand.
Dispatch(client_, command, reply) ==
    CASE command.kind = "Welcome" -> welcome(client_, command, reply)
      [] command.kind = "Traffic" -> traffic(client_, command, reply)
      [] command.kind = "LiveTrafficSnapshot" ->
           live_traffic_snapshot(client_, command, reply)
      [] command.kind = "AllAvailableCameras" ->
           all_available_cameras(client_, command, reply)
      [] command.kind = "CamerasBySegmentId" ->
           cameras_by_segmant_id(client_, command, reply)
      [] command.kind = "CameraByMacId" -> camera_by_mac_id(client_, command, reply)
      [] command.kind = "AllSegments" -> all_segments(client_, command, reply)
      [] command.kind = "SegmentById" -> segment_by_id(client_, command, reply)

\* The subcommand run with the client that new returned, if it returned one.
RunWith(c, command, reply) ==
    IF ~c.ok THEN Ran(<<>>, <<>>, c)
    ELSE Dispatch(c.value, command, reply)

\* A main that ends with Ok whatever the subcommand function returned.
main_discarding_errors(api_token, command, reply) ==
    IF ~new(api_token).ok THEN Ran(<<>>, <<>>, new(api_token))
    ELSE Ran(Dispatch(new(api_token).value, command, reply).requests,
             Dispatch(new(api_token).value, command, reply).stdout, Ok(<<>>))

\* fn main: the client is built from the token, then the subcommand runs;
\* the first error ends the process.
main(api_token, command, reply) ==
    RunWith(new(api_token), command, reply)

\* --------------------------------------------------------------------- state

VARIABLES
    client,      \* Option: the TelraamClient, given by its default headers
    new_result,  \* Option: the token the last TelraamClient::new was given
                 \* and what it returned
    sent,        \* the number of HTTP requests issued
    wire,        \* Option: descriptor, request and reply of the send whose
                 \* result the caller holds
    result,      \* Option: what that send returned
    consumed,    \* the response was moved out of by a take_* accessor
    lastCall,    \* Option: the last method called on the response, and
                 \* what it returned
    cli          \* Option: the run of the command line program, once it
                 \* has ended: its arguments, the reply its request got,
                 \* the requests it issued, what it printed to standard
                 \* output, what main returned, what was written to
                 \* standard error and the exit status

vars == <<client, new_result, sent, wire, result, consumed, lastCall, cli>>

Init ==
    /\ client = None
    /\ new_result = None
    /\ sent = 0
    /\ wire = None
    /\ result = None
    /\ consumed = FALSE
    /\ lastCall = None
    /\ cli = None

\* The caller holds a decoded response that no take_* has consumed.
HoldsResponse(type) ==
    /\ IsSome(result)
    /\ Unwrap(result).ok
    /\ ~consumed
    /\ Unwrap(result).value.type = type

Response == Unwrap(result).value

Call(method, ret) == Some([method |-> method, ret |-> ret])

\* TelraamClient::new(api_token)
New ==
    /\ client = None
    /\ cli = None
    /\ \E api_token \in Tokens :
         LET r == new(api_token)
         IN  /\ new_result' = Some([api_token |-> api_token, ret |-> r])
             /\ client' = IF r.ok THEN Some(r.value) ELSE None
    /\ UNCHANGED <<sent, wire, result, consumed, lastCall, cli>>

\* What the caller and the network hold once a send has returned s.
Returned(e, reply, s) ==
    /\ wire' = Some([endpoint |-> e,
                     request |-> s.requests[Len(s.requests)],
                     reply |-> reply])
    /\ result' = Some(s.ret)
    /\ sent' = sent + Len(s.requests)

\* A call of TelraamClient::send(endpoint) and the reply to its request.
Send ==
    /\ IsSome(client)
    /\ result = None
    /\ sent < MaxSends
    /\ \E e \in Endpoints :
         \E reply \in Replies(ResponseType(e)) :
           Returned(e, reply, send(Unwrap(client), e, reply))
    /\ consumed' = FALSE
    /\ lastCall' = None
    /\ UNCHANGED <<cli, client, new_result>>

\* response.status()
StatusCall ==
    /\ IsSome(result) /\ Unwrap(result).ok /\ ~consumed
    /\ lastCall' = Call("status", status(Response))
    /\ UNCHANGED <<cli, client, new_result, sent, wire, result, consumed>>

\* A reports() that moves the list out of the response it borrows.
ReportsDraining ==
    /\ HoldsResponse("TrafficResponse")
    /\ lastCall' = Call("reports", reports(Response))
    /\ result' = Some(Ok([Response EXCEPT !.reports = <<>>]))
    /\ UNCHANGED <<cli, client, new_result, sent, wire, consumed>>

Reports ==
    /\ HoldsResponse("TrafficResponse")
    /\ lastCall' = Call("reports", reports(Response))
    /\ UNCHANGED <<cli, client, new_result, sent, wire, result, consumed>>

TakeReports ==
    /\ HoldsResponse("TrafficResponse")
    /\ lastCall' = Call("take_reports", take_reports(Response))
    /\ consumed' = TRUE
    /\ UNCHANGED <<cli, client, new_result, sent, wire, result>>

Snapshot ==
    /\ HoldsResponse("TrafficSnapshotResponse")
    /\ lastCall' = Call("snapshot", snapshot(Response))
    /\ UNCHANGED <<cli, client, new_result, sent, wire, result, consumed>>

TakeSnapshot ==
    /\ HoldsResponse("TrafficSnapshotResponse")
    /\ lastCall' = Call("take_snapshot", take_snapshot(Response))
    /\ consumed' = TRUE
    /\ UNCHANGED <<cli, client, new_result, sent, wire, result>>

Cameras ==
    /\ HoldsResponse("CamerasResponse")
    /\ lastCall' = Call("cameras", cameras(Response))
    /\ UNCHANGED <<cli, client, new_result, sent, wire, result, consumed>>

TakeCameras ==
    /\ HoldsResponse("CamerasResponse")
    /\ lastCall' = Call("take_cameras", take_cameras(Response))
    /\ consumed' = TRUE
    /\ UNCHANGED <<cli, client, new_result, sent, wire, result>>

Segments ==
    /\ HoldsResponse("SegmentResponse")
    /\ lastCall' = Call("segments", segments(Response))
    /\ UNCHANGED <<cli, client, new_result, sent, wire, result, consumed>>

TakeSegments ==
    /\ HoldsResponse("SegmentResponse")
    /\ lastCall' = Call("take_segments", take_segments(Response))
    /\ consumed' = TRUE
    /\ UNCHANGED <<cli, client, new_result, sent, wire, result>>

\* The caller lets go of what send returned.
Drop ==
    /\ IsSome(result)
    /\ wire' = None
    /\ result' = None
    /\ consumed' = FALSE
    /\ lastCall' = None
    /\ UNCHANGED <<cli, client, new_result, sent>>

\* What the runtime does with the Result main returns: an Err is written
\* to standard error and the exit status is 1.
Termination_report(ret) == IF ret.ok THEN <<>> ELSE <<ret.error>>
ExitCode(ret) == IF ret.ok THEN 0 ELSE 1

\* The record of a run that has ended; the reply is kept if a request was
\* issued.
Exited(api_token, command, reply, ran) ==
    [api_token |-> api_token,
     command |-> command,
     reply |-> IF ran.requests = <<>> THEN None ELSE Some(reply),
     requests |-> ran.requests,
     stdout |-> ran.stdout,
     ret |-> ran.ret,
     stderr |-> Termination_report(ran.ret),
     exit |-> ExitCode(ran.ret)]

\* One run of the command line program, from its arguments to its exit.
\* No request is issued, and so no reply is received, when the client
\* cannot be built.
Main ==
    /\ cli = None
    /\ new_result = None
    /\ \E api_token \in Tokens :
         \E command \in Endpoints :
           \E reply \in Replies(ResponseType(command)) :
             cli' = Some(Exited(api_token, command, reply,
                                main(api_token, command, reply)))
    /\ UNCHANGED <<client, new_result, sent, wire, result, consumed, lastCall>>

Next ==
    \/ Main
    \/ New
    \/ Send
    \/ StatusCall
    \/ Reports
    \/ TakeReports
    \/ Snapshot
    \/ TakeSnapshot
    \/ Cameras
    \/ TakeCameras
    \/ Segments
    \/ TakeSegments
    \/ Drop

Spec == Init /\ [][Next]_vars

\* --------------------------------------------------------------- properties

\* The exchange the caller holds the result of.
Exchange == Unwrap(wire)
SendReturned == Unwrap(result)
LastCall == Unwrap(lastCall)

AccessorMethods ==
    {"reports", "take_reports", "snapshot", "take_snapshot",
     "cameras", "take_cameras", "segments", "take_segments"}

\* The payload field of a decoded response that has one.
PayloadOf(r) ==
    CASE r.type = "TrafficResponse" -> r.reports
      [] r.type = "TrafficSnapshotResponse" -> r.geo
      [] r.type = "CamerasResponse" -> r.cameras
      [] r.type = "SegmentResponse" -> r.segment

\* C1: whenever a payload accessor (reports, take_reports, snapshot,
\* take_snapshot, cameras, take_cameras, segments, take_segments) has been
\* called on a decoded response, it returned the decoded payload if the
\* response's status_code is at most 299, and otherwise the error
\* Non200Response with exactly the response's status_code and message.
C1_AccessorChecksStatus ==
    (IsSome(lastCall) /\ LastCall.method \in AccessorMethods) =>
        LET r == SendReturned.value
            ret == LastCall.ret
        IN  IF r.status.status_code <= 299
            THEN ret.ok /\ ret.value = PayloadOf(r)
            ELSE /\ ~ret.ok
                 /\ ret.error.kind = "Non200Response"
                 /\ ret.error.status.status_code = r.status.status_code
                 /\ ret.error.status.message = r.status.message

\* The boundary: an accessor has failed on status_code 300 with the body's
\* message.
C1_Witness ==
    /\ IsSome(lastCall)
    /\ LastCall.method = "take_cameras"
    /\ SendReturned.value.status.status_code = 300
    /\ ~LastCall.ret.ok
    /\ LastCall.ret.error.status = [status_code |-> 300, message |-> "ok"]

\* A call has handed the response's payload to the caller: for a
\* WelcomeResponse its message, for the others the payload field.
ReturnsPayload(c, r) ==
    IF r.type = "WelcomeResponse"
    THEN c.method = "status" /\ c.ret.message = r.status.message
    ELSE c.method \in AccessorMethods /\ c.ret.ok /\ c.ret.value = PayloadOf(r)

\* C2 as stated: no call on a response whose status_code is above 299 has
\* returned that response's payload, the message of a WelcomeResponse
\* included.
C2_NoPayloadPastFailedStatus ==
    (IsSome(lastCall) /\ SendReturned.value.status.status_code > 299) =>
        ~ReturnsPayload(LastCall, SendReturned.value)

\* C2 as amended: no call on a TrafficResponse, TrafficSnapshotResponse,
\* CamerasResponse or SegmentResponse whose status_code is above 299 has
\* returned its report list, camera list or GeoJSON document; a
\* WelcomeResponse has no checked accessor, and status() returns its message
\* whatever its status_code.
C2_PayloadFieldsChecked ==
    IsSome(lastCall) =>
        LET r == SendReturned.value
        IN  /\ (r.type # "WelcomeResponse" /\ r.status.status_code > 299)
                  => ~ReturnsPayload(LastCall, r)
            /\ r.type = "WelcomeResponse"
                  => LastCall.method = "status" /\ LastCall.ret.message = r.status.message

\* A borrowing accessor was refused on a response with status_code 404.
C2_Witness ==
    /\ IsSome(lastCall)
    /\ LastCall.method = "reports"
    /\ SendReturned.value.status.status_code = 404
    /\ SendReturned.value.reports # <<>>
    /\ ~LastCall.ret.ok

\* C3: send returns Ok with the decoded response for every reply whose body
\* decodes, whatever its status_code, so the error of send is never
\* Non200Response; and status() returns the response's Status and does not
\* fail.
C3_SendDefersStatusCheck ==
    /\ (IsSome(result) /\ Exchange.reply.kind = "http") =>
          LET d == Deserialize(ResponseType(Exchange.endpoint), Exchange.reply.body)
          IN  d.ok => SendReturned.ok /\ SendReturned.value = d.value
    /\ (IsSome(result) /\ ~SendReturned.ok) =>
          SendReturned.error.kind \in {"transport", "decode"}
    /\ (IsSome(lastCall) /\ LastCall.method = "status") =>
          LastCall.ret = SendReturned.value.status

\* send returned Ok for a body with status_code 404 and status() returned it.
C3_Witness ==
    /\ IsSome(lastCall)
    /\ LastCall.method = "status"
    /\ SendReturned.ok
    /\ Exchange.reply.body.status_code = Some(404)
    /\ LastCall.ret = [status_code |-> 404, message |-> "ok"]

\* C4: the URL of every request is "https://telraam-api.net/v1/" followed by
\* the descriptor's PATH and, exactly when path_params() is present, by "/"
\* and the path parameter as given, empty or not.
C4_UrlOfRequest ==
    IsSome(wire) =>
        LET e == Exchange.endpoint
            url == Exchange.request.url
        IN  /\ url = "https://telraam-api.net" \o "/" \o "v1" \o "/" \o PATH(e)
                       \o (IF IsSome(path_params(e))
                           THEN "/" \o Unwrap(path_params(e)) ELSE "")
            /\ e.kind = "Welcome" => url = "https://telraam-api.net/v1/"

\* A request with an empty path parameter: the URL ends with the "/".
C4_Witness ==
    /\ IsSome(wire)
    /\ Exchange.endpoint = [kind |-> "CamerasBySegmentId", segment_id |-> ""]
    /\ Exchange.request.url = "https://telraam-api.net/v1/cameras/segment/"

\* The declared path, method and path parameter of the eight descriptors.
DeclaredPath(e) ==
    CASE e.kind = "Welcome" -> ""
      [] e.kind = "Traffic" -> "reports/traffic"
      [] e.kind = "LiveTrafficSnapshot" -> "reports/traffic_snapshot_live"
      [] e.kind = "AllAvailableCameras" -> "cameras"
      [] e.kind = "CamerasBySegmentId" -> "cameras/segment"
      [] e.kind = "CameraByMacId" -> "cameras"
      [] e.kind = "AllSegments" -> "segments/all"
      [] e.kind = "SegmentById" -> "segments/id"

DeclaredPathParam(e) ==
    CASE e.kind \in {"CamerasBySegmentId", "SegmentById"} -> Some(e.segment_id)
      [] e.kind = "CameraByMacId" -> Some(e.mac_id)
      [] OTHER -> None

\* C5: the descriptors are the eight kinds, each request is made with the
\* path, method and path parameter the table gives its descriptor, and the
\* only POST is Traffic.
C5_DescriptorTable ==
    /\ {e.kind : e \in Endpoints} =
          {"Welcome", "Traffic", "LiveTrafficSnapshot", "AllAvailableCameras",
           "CamerasBySegmentId", "CameraByMacId", "AllSegments", "SegmentById"}
    /\ IsSome(wire) =>
          LET e == Exchange.endpoint
          IN  /\ PATH(e) = DeclaredPath(e)
              /\ path_params(e) = DeclaredPathParam(e)
              /\ METHOD(e) = (IF e.kind = "Traffic" THEN "POST" ELSE "GET")
              /\ Exchange.request.method = METHOD(e)
              /\ Exchange.request.method = "POST" <=> e.kind = "Traffic"

\* Requests of the POST descriptor and of a GET descriptor with a parameter.
C5_Witness ==
    /\ IsSome(wire)
    /\ Exchange.endpoint.kind = "Traffic"
    /\ Exchange.request.method = "POST"
    /\ Exchange.request.url = "https://telraam-api.net/v1/reports/traffic"

\* C6: a request has a body exactly when the descriptor's payload() returns
\* a value: no descriptor but Traffic has one, and the body of a Traffic
\* request is the serialized TrafficRequest the descriptor owns.
C6_BodyIffPayload ==
    IsSome(wire) =>
        LET e == Exchange.endpoint
            body == Exchange.request.body
        IN  /\ IsSome(body) <=> IsSome(payload(e))
            /\ e.kind # "Traffic" => body = None
            /\ e.kind = "Traffic" =>
                  /\ payload(e) = Some(e.request)
                  /\ body = Some(SerializeTrafficRequest(e.request))

\* A GET request went out without a body.
C6_Witness ==
    /\ IsSome(wire)
    /\ Exchange.endpoint.kind = "SegmentById"
    /\ Exchange.request.method = "GET"
    /\ Exchange.request.body = None

\* The reply of the exchange is a JSON object for a CamerasResponse whose
\* list is under "cameras".
CamerasListReplied ==
    /\ IsSome(result)
    /\ ResponseType(Exchange.endpoint) = "CamerasResponse"
    /\ Exchange.reply.kind = "http"
    /\ Exchange.reply.body.json
    /\ IsSome(Exchange.reply.body.cameras)
    /\ ~IsSome(Exchange.reply.body.camera)

\* C7: "yes" decodes to true and "no" to false; a list that holds any other
\* value of is_calibration_done ("Yes" and "" included) does not decode at
\* all: send fails with a decode error that names the first such value, and
\* no partial list is returned.
C7_YesNoDecoding ==
    CamerasListReplied =>
        LET list == Unwrap(Exchange.reply.body.cameras)
            bad == {i \in 1..Len(list) : list[i].is_calibration_done \notin {"yes", "no"}}
        IN  IF bad = {}
            THEN SendReturned.ok =>
                   /\ Len(SendReturned.value.cameras) = Len(list)
                   /\ \A i \in 1..Len(list) :
                        SendReturned.value.cameras[i].is_calibration_done
                          = (list[i].is_calibration_done = "yes")
            ELSE /\ ~SendReturned.ok
                 /\ SendReturned.error.kind = "decode"
                 /\ SendReturned.error.reason = "unknown_variant"
                 /\ \E i \in bad :
                      /\ \A j \in bad : i <= j
                      /\ SendReturned.error.what = list[i].is_calibration_done

\* A list with a good camera followed by one flagged "Yes" failed to decode.
C7_Witness ==
    /\ CamerasListReplied
    /\ Len(Unwrap(Exchange.reply.body.cameras)) = 2
    /\ Unwrap(Exchange.reply.body.cameras)[1].is_calibration_done = "yes"
    /\ Unwrap(Exchange.reply.body.cameras)[2].is_calibration_done = "Yes"
    /\ ~SendReturned.ok
    /\ SendReturned.error.what = "Yes"

\* A request of the Traffic descriptor is on the wire.
TrafficRequested == IsSome(wire) /\ Exchange.endpoint.kind = "Traffic"
TrafficBody == Unwrap(Exchange.request.body)

\* C8: in the body of a Traffic request, level is "segments" for Segments
\* and "instance" for Instance, and format and id are the request's strings.
C8_LevelFormatId ==
    TrafficRequested =>
        LET r == Exchange.endpoint.request
        IN  /\ r.level = "Segments" => TrafficBody.level = "segments"
            /\ r.level = "Instance" => TrafficBody.level = "instance"
            /\ TrafficBody.format = r.format
            /\ TrafficBody.id = r.id

\* An Instance request with an empty id was serialized.
C8_Witness ==
    /\ TrafficRequested
    /\ Exchange.endpoint.request.level = "Instance"
    /\ Exchange.endpoint.request.id = ""
    /\ TrafficBody.level = "instance"
    /\ TrafficBody.id = ""

\* The form YYYY-MM-DDTHH:MM:SS.mmmZ.
IsRfc3339Millis(cs) ==
    /\ Len(cs) = 24
    /\ \A i \in {1, 2, 3, 4, 6, 7, 9, 10, 12, 13, 15, 16, 18, 19, 21, 22, 23} :
         IsDigit(cs[i])
    /\ cs[5] = "-" /\ cs[8] = "-" /\ cs[11] = "T"
    /\ cs[14] = ":" /\ cs[17] = ":" /\ cs[20] = "." /\ cs[24] = "Z"

\* The instant a timestamp string denotes is the time t.
Denotes(cs, t) ==
    LET p == parse_rfc3339_weak(cs) IN p.ok /\ p.value = t

\* The time t without what is below a millisecond.
TruncMillis(t) == Time(t.secs, (t.nanos \div 1000000) * 1000000)

\* C9 as stated: time_start and time_end of a Traffic body have the form
\* YYYY-MM-DDTHH:MM:SS.mmmZ and denote the instant of the request's time,
\* whatever its sub-second part.
C9_DenotesInputInstant ==
    TrafficRequested =>
        LET r == Exchange.endpoint.request
        IN  /\ IsRfc3339Millis(TrafficBody.time_start)
            /\ IsRfc3339Millis(TrafficBody.time_end)
            /\ Denotes(TrafficBody.time_start, r.time_start)
            /\ Denotes(TrafficBody.time_end, r.time_end)

\* C9 as amended: time_start and time_end of a Traffic body have the form
\* YYYY-MM-DDTHH:MM:SS.mmmZ and denote the instant of the request's time cut
\* down to the whole millisecond (never rounded up); 2020-10-30 07:00:00Z
\* is rendered "2020-10-30T07:00:00.000Z".
C9_DenotesInstantCutToMillis ==
    TrafficRequested =>
        LET r == Exchange.endpoint.request
        IN  /\ IsRfc3339Millis(TrafficBody.time_start)
            /\ IsRfc3339Millis(TrafficBody.time_end)
            /\ Denotes(TrafficBody.time_start, TruncMillis(r.time_start))
            /\ Denotes(TrafficBody.time_end, TruncMillis(r.time_end))
            /\ r.time_start = Time(1604041200, 0) => TrafficBody.time_start = Ts20201030
            /\ r.time_end = Time(1604041200, 0) => TrafficBody.time_end = Ts20201030

\* A time one nanosecond before the next second was rendered with ".999".
C9_Witness ==
    /\ TrafficRequested
    /\ Exchange.endpoint.request.time_start = Time(0, 999999999)
    /\ Exchange.endpoint.request.time_end = Time(1604041200, 0)
    /\ SubSeq(TrafficBody.time_start, 18, 24) = <<"0", "0", ".", "9", "9", "9", "Z">>
    /\ TrafficBody.time_end = Ts20201030

\* The reply of the exchange is a JSON object for a WelcomeResponse without
\* the member status_code.
WelcomeWithoutCodeReplied ==
    /\ IsSome(result)
    /\ Exchange.endpoint.kind = "Welcome"
    /\ Exchange.reply.kind = "http"
    /\ Exchange.reply.body.json
    /\ ~IsSome(Exchange.reply.body.status_code)

\* C10: a Welcome body that holds only "msg", or only "message", decodes to
\* a WelcomeResponse with that string as its message and status_code 0.
C10_MsgAliasAndDefaultCode ==
    WelcomeWithoutCodeReplied =>
        LET body == Exchange.reply.body
        IN  /\ (IsSome(body.msg) /\ ~IsSome(body.message)) =>
                  /\ SendReturned.ok
                  /\ SendReturned.value.type = "WelcomeResponse"
                  /\ SendReturned.value.status
                       = [status_code |-> 0, message |-> Unwrap(body.msg)]
            /\ (IsSome(body.message) /\ ~IsSome(body.msg)) =>
                  /\ SendReturned.ok
                  /\ SendReturned.value.status
                       = [status_code |-> 0, message |-> Unwrap(body.message)]

\* The body {"msg": "hello! Telraam server 2.0 is up and running"} decoded.
C10_Witness ==
    /\ WelcomeWithoutCodeReplied
    /\ Exchange.reply.body.msg = Some("hello! Telraam server 2.0 is up and running")
    /\ ~IsSome(Exchange.reply.body.message)
    /\ SendReturned.ok
    /\ SendReturned.value.status.status_code = 0
    /\ SendReturned.value.status.message = "hello! Telraam server 2.0 is up and running"

\* ------------------------------------------------ command line: properties

Cli == Unwrap(cli)
CliReply == Unwrap(Cli.reply)

\* The program got a reply whose body decodes to the subcommand's Response.
CliDecodedReply ==
    /\ IsSome(cli)
    /\ IsSome(Cli.reply)
    /\ CliReply.kind = "http"
    /\ Deserialize(ResponseType(Cli.command), CliReply.body).ok

CliResponse == Deserialize(ResponseType(Cli.command), CliReply.body).value

\* The item type of the list a subcommand prints.
PrintedKind(command) ==
    CASE ResponseType(command) = "TrafficResponse" -> "Report"
      [] ResponseType(command) = "CamerasResponse" -> "Camera"
      [] OTHER -> "GeoJson"

\* C11 as stated: whichever of the eight subcommands ran, a line on standard
\* output means that one request was sent, that its reply decoded to a
\* response with status_code <= 299, and that the line is the payload
\* extracted from that response.
C11_PrintsOnlyCheckedPayload ==
    (IsSome(cli) /\ Cli.stdout # <<>>) =>
        /\ Len(Cli.requests) = 1
        /\ CliDecodedReply
        /\ CliResponse.status.status_code <= 299
        /\ Cli.command.kind # "Welcome" =>
             Cli.stdout = <<to_string_pretty(PrintedKind(Cli.command),
                                             PayloadOf(CliResponse))>>

\* C11: each of the seven subcommands other than welcome prints exactly when
\* one request was sent and its reply decoded to a response with
\* status_code <= 299, and then prints the payload of that response; a
\* response with status_code > 299 is never printed by them.  The welcome
\* subcommand applies no check: it prints "msg = " and the message of every
\* response that decoded, whatever its status_code.
C11_SevenCheckWelcomePrints ==
    IsSome(cli) =>
        /\ Cli.stdout # <<>> => (Len(Cli.requests) = 1 /\ CliDecodedReply)
        /\ (CliDecodedReply /\ Cli.command.kind # "Welcome") =>
             IF CliResponse.status.status_code <= 299
             THEN Cli.stdout = <<to_string_pretty(PrintedKind(Cli.command),
                                                  PayloadOf(CliResponse))>>
             ELSE Cli.stdout = <<>>
        /\ (CliDecodedReply /\ Cli.command.kind = "Welcome") =>
             Cli.stdout = <<"msg = " \o CliResponse.status.message>>

\* The two cameras of a segment printed from a reply with status_code 299.
C11_Witness ==
    /\ CliDecodedReply
    /\ Cli.command.kind = "CamerasBySegmentId"
    /\ CliResponse.status.status_code = 299
    /\ Len(Cli.stdout) = 1
    /\ Len(Cli.stdout[1]) = 2
    /\ Cli.ret.ok

\* A failure in the run: the token is no header value, the request met a
\* transport failure, the reply did not decode, or the decoded response
\* has status_code > 299.
CliFailed ==
    \/ ~IsHeaderValue(Cli.api_token)
    \/ /\ IsSome(Cli.reply)
       /\ \/ CliReply.kind = "transport_error"
          \/ ~Deserialize(ResponseType(Cli.command), CliReply.body).ok
          \/ CliResponse.status.status_code > 299

\* The decoded response of a welcome run has status_code > 299.
CliWelcomeNonSuccess ==
    /\ CliDecodedReply
    /\ Cli.command.kind = "Welcome"
    /\ CliResponse.status.status_code > 299

\* C12 as stated: a run in which any failure occurred ended with an error
\* from main, exit status 1, the error on standard error and nothing on
\* standard output; standard output holds at most one print, made only by
\* a run that ended with Ok.
C12_EveryFailureEndsInError ==
    IsSome(cli) =>
        /\ Len(Cli.stdout) <= 1
        /\ Cli.stdout # <<>> => Cli.ret.ok
        /\ CliFailed =>
             /\ ~Cli.ret.ok
             /\ Cli.exit = 1
             /\ Cli.stderr = <<Cli.ret.error>>
             /\ Cli.stdout = <<>>

\* C12: a run in which a failure occurred other than a non-success
\* status_code of the welcome subcommand ended with an error from main, exit
\* status 1, the error on standard error and nothing on standard output; a
\* welcome run whose response has status_code > 299 printed the message and
\* ended with Ok and exit status 0; standard output holds at most one print,
\* made only by a run that ended with Ok.
C12_FailureEndsInErrorButWelcome ==
    IsSome(cli) =>
        /\ Len(Cli.stdout) <= 1
        /\ Cli.stdout # <<>> => (Cli.ret.ok /\ Cli.exit = 0 /\ Cli.stderr = <<>>)
        /\ (CliFailed /\ ~CliWelcomeNonSuccess) =>
             /\ ~Cli.ret.ok
             /\ Cli.exit = 1
             /\ Cli.stderr = <<Cli.ret.error>>
             /\ Cli.stdout = <<>>
        /\ CliWelcomeNonSuccess =>
             /\ Cli.ret.ok
             /\ Cli.exit = 0
             /\ Len(Cli.stdout) = 1

\* A traffic run whose reply decoded to status_code 404: nothing printed,
\* Non200Response returned from main.
C12_Witness ==
    /\ CliDecodedReply
    /\ Cli.command.kind = "Traffic"
    /\ CliResponse.status.status_code = 404
    /\ Cli.stdout = <<>>
    /\ Cli.exit = 1
    /\ Cli.stderr = <<Non200Response([status_code |-> 404, message |-> "ok"])>>

\* The last call of TelraamClient::new.
NewCalled == Unwrap(new_result)

\* C13: a call of TelraamClient::new with a token that is no header value
\* returned an error and left the caller without a client, so that no
\* request was sent; every client there is holds a token that is a header
\* value; a run of the program given such a token issued no request and
\* ended with the error.
C13_MalformedTokenNoClient ==
    /\ (IsSome(new_result) /\ ~IsHeaderValue(NewCalled.api_token)) =>
          /\ NewCalled.ret = Err([kind |-> "InvalidHeaderValue"])
          /\ client = None
          /\ sent = 0
          /\ wire = None
    /\ IsSome(client) => IsHeaderValue(Unwrap(client).x_api_key.value)
    /\ (IsSome(cli) /\ ~IsHeaderValue(Cli.api_token)) =>
          /\ Cli.requests = <<>>
          /\ Cli.reply = None
          /\ Cli.stdout = <<>>
          /\ Cli.ret = Err([kind |-> "InvalidHeaderValue"])
          /\ Cli.exit = 1

\* The program run with the token "k\n".
C13_Witness ==
    /\ IsSome(cli)
    /\ Cli.api_token = <<"k", "\n">>
    /\ Cli.requests = <<>>
    /\ Cli.exit = 1

\* The instants the timestamps used as inputs denote, in seconds and
\* nanoseconds since 1970-01-01T00:00:00Z.
InstantOf(cs) ==
    CASE cs = Ts20191002 -> Time(1570045374, 343000000)
      [] cs = Ts20201030 -> Time(1604041200, 0)

\* C14: in a camera list that decoded, a camera whose time_end is null has
\* no end time, and a camera whose time_end is a timestamp string has the
\* instant that string denotes as its end time.
C14_TimeEndNullOrInstant ==
    (CamerasListReplied /\ SendReturned.ok) =>
        LET list == Unwrap(Exchange.reply.body.cameras)
            decoded == SendReturned.value.cameras
        IN  /\ Len(decoded) = Len(list)
            /\ \A i \in 1..Len(list) :
                 IF list[i].time_end = None
                 THEN decoded[i].time_end = None
                 ELSE decoded[i].time_end
                        = Some(InstantOf(Unwrap(list[i].time_end)))

\* A decoded list of an active camera and one that ended at
\* 2019-10-02T19:42:54.343Z.
C14_Witness ==
    /\ CamerasListReplied
    /\ SendReturned.ok
    /\ Len(SendReturned.value.cameras) = 2
    /\ Unwrap(Exchange.reply.body.cameras)[1].time_end = None
    /\ SendReturned.value.cameras[1].time_end = None
    /\ Unwrap(Exchange.reply.body.cameras)[2].time_end = Some(Ts20191002)
    /\ SendReturned.value.cameras[2].time_end = Some(Time(1570045374, 343000000))

C16_ConfigurationFixed ==
    [][/\ IsSome(client) => client' = client
       /\ IsSome(wire') =>
            LET x == Unwrap(wire')
            IN  /\ IsSome(new_result')
                /\ x.request.headers.accept = "application/json"
                /\ x.request.headers.content_type = "application/json"
                /\ x.request.headers.x_api_key.value = Unwrap(new_result').api_token
                /\ x.request.url
                     = "https://telraam-api.net/v1/" \o PATH(x.endpoint)
                       \o (IF IsSome(path_params(x.endpoint))
                           THEN "/" \o Unwrap(path_params(x.endpoint)) ELSE "")
                /\ result' = Some(IF x.reply.kind = "transport_error"
                                  THEN Err([kind |-> "transport"])
                                  ELSE Deserialize(ResponseType(x.endpoint),
                                                   x.reply.body))
       /\ IsSome(cli') =>
            \A i \in 1..Len(Unwrap(cli').requests) :
              LET h == Unwrap(cli').requests[i].headers
              IN  /\ h.accept = "application/json"
                  /\ h.content_type = "application/json"
                  /\ h.x_api_key.value = Unwrap(cli').api_token]_vars

\* The second send of a client built with the token "k2", a POST.
C16_Witness ==
    /\ sent = 2
    /\ IsSome(wire)
    /\ Exchange.request.method = "POST"
    /\ Exchange.request.headers
         = [accept |-> "application/json", content_type |-> "application/json",
            x_api_key |-> [value |-> <<"k", "2">>, sensitive |-> TRUE]]
    /\ NewCalled.api_token = <<"k", "2">>

BorrowingMethods == {"status", "reports", "snapshot", "cameras", "segments"}
TakeMethods == {"take_reports", "take_snapshot", "take_cameras", "take_segments"}

\* What a take_* yields on the response r when nothing was called before.
TakenFirst(r) ==
    IF r.status.status_code <= 299 THEN Ok(PayloadOf(r))
    ELSE Err(Non200Response(r.status))

\* C17: a call of status() or of a borrowing accessor leaves the response as
\* send returned it and leaves it usable; a call of the method called just
\* before returns what that call returned; a take_*, whatever was called
\* before it, returns what it yields on the response as send returned it,
\* and after it nothing more is called on that response.
C17_BorrowingLeavesResponse ==
    [][/\ (IsSome(lastCall') /\ lastCall' # lastCall
             /\ Unwrap(lastCall').method \in BorrowingMethods) =>
            /\ result' = result
            /\ wire' = wire
            /\ ~consumed /\ ~consumed'
       /\ (IsSome(lastCall) /\ IsSome(lastCall')
             /\ Unwrap(lastCall').method = LastCall.method) =>
            Unwrap(lastCall').ret = LastCall.ret
       /\ (IsSome(lastCall') /\ lastCall' # lastCall
             /\ Unwrap(lastCall').method \in TakeMethods) =>
            /\ result' = result
            /\ ~consumed /\ consumed'
            /\ Unwrap(lastCall').ret
                 = TakenFirst(Deserialize(ResponseType(Exchange.endpoint),
                                          Exchange.reply.body).value)
       /\ consumed => (lastCall' = None /\ result' = None)]_vars

\* take_reports returned the one report of a response.
C17_Witness ==
    /\ consumed
    /\ IsSome(lastCall)
    /\ LastCall.method = "take_reports"
    /\ LastCall.ret.ok
    /\ Len(LastCall.ret.value) = 1
    /\ SendReturned.value.reports = LastCall.ret.value

\* The borrowing accessor and the take_* of a response type, applied to r.
Borrowed(r) ==
    CASE r.type = "TrafficResponse" -> reports(r)
      [] r.type = "TrafficSnapshotResponse" -> snapshot(r)
      [] r.type = "CamerasResponse" -> cameras(r)
      [] r.type = "SegmentResponse" -> segments(r)
Taken(r) ==
    CASE r.type = "TrafficResponse" -> take_reports(r)
      [] r.type = "TrafficSnapshotResponse" -> take_snapshot(r)
      [] r.type = "CamerasResponse" -> take_cameras(r)
      [] r.type = "SegmentResponse" -> take_segments(r)

\* C18: on the Status of every response send returned, try_to_error and
\* try_into_error succeed together, and where they fail they give a
\* Non200Response with the same status_code and message; on every response
\* with a payload the borrowing accessor and its take_* succeed together and
\* yield the same payload; and a take_* called right after its borrowing
\* accessor returned what that accessor returned.
C18_BorrowingAndConsumingAgree ==
    [][(IsSome(result') /\ Unwrap(result').ok) =>
         LET r == Unwrap(result').value
             b == try_to_error(r.status)
             t == try_into_error(r.status)
         IN  /\ b.ok <=> t.ok
             /\ ~b.ok =>
                  /\ b.error.kind = "Non200Response"
                  /\ t.error.kind = "Non200Response"
                  /\ b.error.status.status_code = t.error.status.status_code
                  /\ b.error.status.message = t.error.status.message
                  /\ b.error.status = r.status
             /\ r.type # "WelcomeResponse" =>
                  /\ Borrowed(r).ok <=> Taken(r).ok
                  /\ Borrowed(r) = Taken(r)
             /\ (IsSome(lastCall) /\ IsSome(lastCall')
                   /\ LastCall.method \in BorrowingMethods \ {"status"}
                   /\ Unwrap(lastCall').method \in TakeMethods) =>
                  Unwrap(lastCall').ret = LastCall.ret]_vars

\* take_cameras failed on a response with status_code 300 as cameras would.
C18_Witness ==
    /\ IsSome(lastCall)
    /\ LastCall.method = "take_cameras"
    /\ LastCall.ret = Err(Non200Response([status_code |-> 300, message |-> "ok"]))
    /\ cameras(SendReturned.value) = LastCall.ret

\* C19: what send returned for a reply is what the reply's body decodes to,
\* and it is what send returns for the same body under every other HTTP
\* status; a body that decodes gives Ok with the decoded response under
\* HTTP 500 as under HTTP 200.  The same holds of what a run of the
\* program prints and returns.
C19_HttpStatusIgnored ==
    /\ (IsSome(wire) /\ Exchange.reply.kind = "http") =>
          /\ SendReturned
               = Deserialize(ResponseType(Exchange.endpoint), Exchange.reply.body)
          /\ \A h \in HttpStatuses :
               send(Unwrap(client), Exchange.endpoint,
                    [Exchange.reply EXCEPT !.http_status = h]).ret = SendReturned
    /\ (IsSome(cli) /\ IsSome(Cli.reply) /\ CliReply.kind = "http") =>
          \A h \in HttpStatuses :
            LET other == main(Cli.api_token, Cli.command,
                              [CliReply EXCEPT !.http_status = h])
            IN  /\ other.ret = Cli.ret
                /\ other.stdout = Cli.stdout

\* A camera list delivered with HTTP 500 was returned as a decoded response.
C19_Witness ==
    /\ IsSome(wire)
    /\ Exchange.reply.kind = "http"
    /\ Exchange.reply.http_status = 500
    /\ SendReturned.ok
    /\ SendReturned.value.type = "CamerasResponse"
    /\ Len(SendReturned.value.cameras) = 1

\* The reply of the exchange is a JSON object without status_code.
ReplyWithoutCode ==
    /\ IsSome(result)
    /\ Exchange.reply.kind = "http"
    /\ Exchange.reply.body.json
    /\ ~IsSome(Exchange.reply.body.status_code)

\* C20: a body without status_code that decodes gives status_code 0 (a
\* Welcome body with one of "message" and "msg" does decode), the Status
\* check passes on it, and every payload accessor called on it succeeded;
\* a payload accessor failed, and a run of the program ended with
\* Non200Response, only on a body that holds a status_code above 299.
C20_AbsentCodeIsNoError ==
    /\ ReplyWithoutCode =>
          /\ SendReturned.ok =>
                /\ SendReturned.value.status.status_code = 0
                /\ try_to_error(SendReturned.value.status) = Ok(<<>>)
                /\ try_into_error(SendReturned.value.status) = Ok(<<>>)
          /\ (Exchange.endpoint.kind = "Welcome"
                /\ IsSome(Exchange.reply.body.message)
                     # IsSome(Exchange.reply.body.msg)) => SendReturned.ok
          /\ (IsSome(lastCall) /\ LastCall.method \in AccessorMethods) =>
                LastCall.ret.ok
    /\ (IsSome(lastCall) /\ LastCall.method \in AccessorMethods
          /\ ~LastCall.ret.ok) =>
          /\ LastCall.ret.error.kind = "Non200Response"
          /\ IsSome(Exchange.reply.body.status_code)
          /\ Unwrap(Exchange.reply.body.status_code) > 299
    /\ (IsSome(cli) /\ ~Cli.ret.ok /\ Cli.ret.error.kind = "Non200Response") =>
          /\ IsSome(CliReply.body.status_code)
          /\ Unwrap(CliReply.body.status_code) > 299

\* reports() returned the list of a Traffic body that holds no status_code.
C20_Witness ==
    /\ ReplyWithoutCode
    /\ IsSome(lastCall)
    /\ LastCall.method = "reports"
    /\ LastCall.ret.ok
    /\ Len(LastCall.ret.value) = 1
    /\ SendReturned.value.status.status_code = 0

\* A run of the program printed a camera list.
CliPrintedCameras ==
    /\ CliDecodedReply
    /\ ResponseType(Cli.command) = "CamerasResponse"
    /\ Len(Cli.stdout) = 1

\* The camera list of the reply, under the member that holds it.
CliWireCameras ==
    IF IsSome(CliReply.body.cameras) THEN Unwrap(CliReply.body.cameras)
    ELSE Unwrap(CliReply.body.camera)

\* C21: the decoder applied to the encoding of either boolean gives that
\* boolean, the encoder applied to the decoding of "yes" or "no" gives that
\* string, and the encoder gives no other string; in a camera list the
\* program printed, each is_calibration_done is "yes" or "no", is the string
\* the reply held and decodes to the boolean the library had decoded, and
\* the printed list decodes again to the list that was taken.
C21_YesNoRoundTrip ==
    /\ \A b \in BOOLEAN :
         /\ to_yes_no(b) \in {"yes", "no"}
         /\ from_yes_no(to_yes_no(b)) = Ok(b)
    /\ \A s \in {"yes", "no"} :
         /\ from_yes_no(s).ok
         /\ to_yes_no(from_yes_no(s).value) = s
    /\ to_yes_no(TRUE) = "yes" /\ to_yes_no(FALSE) = "no"
    /\ CliPrintedCameras =>
         LET printed == Cli.stdout[1]
             taken == CliResponse.cameras
         IN  /\ Len(printed) = Len(taken)
             /\ Len(printed) = Len(CliWireCameras)
             /\ \A i \in 1..Len(printed) :
                  /\ printed[i].is_calibration_done \in {"yes", "no"}
                  /\ printed[i].is_calibration_done
                       = CliWireCameras[i].is_calibration_done
                  /\ from_yes_no(printed[i].is_calibration_done)
                       = Ok(taken[i].is_calibration_done)
             /\ DeserializeVec("Camera", printed) = Ok(taken)

\* A printed list of a calibrated and an uncalibrated camera.
C21_Witness ==
    /\ CliPrintedCameras
    /\ Len(Cli.stdout[1]) = 2
    /\ Cli.stdout[1][1].is_calibration_done = "yes"
    /\ Cli.stdout[1][2].is_calibration_done = "no"
    /\ CliResponse.cameras[1].is_calibration_done = TRUE
    /\ CliResponse.cameras[2].is_calibration_done = FALSE
    /\ DeserializeVec("Camera", Cli.stdout[1]) = Ok(CliResponse.cameras)

====
